---- MODULE Spec2Model ----
(***************************************************************************)
(* A model of examples/openai_client.py: main() runs the three canned     *)
(* streaming examples and, when line 153 is uncommented, the interactive  *)
(* chat loop.  Strings are sequences of one-character strings so that     *)
(* str.strip(), str.lower() and += are computed rather than assumed.      *)
(* The OpenAI client and the terminal are the environment: the outcome of *)
(* create(), every chunk of a stream and every input line are chosen      *)
(* nondeterministically.                                                  *)
(***************************************************************************)
EXTENDS Naturals, Sequences, FiniteSets, TLC

\* Most chunks one stream delivers before it must end or fail.
MaxFrags == 2
\* Most exchanges the interactive loop starts.
MaxTurns == 2

VARIABLES
    runInteractive,     \* line 153 is uncommented
    pc,                 \* where main() is
    cur,                \* the example function that last called create()
    messages,           \* interactive_chat's local history (line 95)
    line,               \* what input() returned last (line 98, before strip)
    user_input,         \* line 98, after strip
    assistant_message,  \* line 117
    stream,             \* "none", "open", "exhausted", "failed"
    delivered,          \* the chunks yielded by the stream being iterated
    rendered,           \* text printed since the last "Assistant: " label
    requests,           \* the messages argument of every create() call, in order
    out,                \* the print() statements executed, as tags, in order
    exc                 \* the exception raised, "none" before any

vars == <<runInteractive, pc, cur, messages, line, user_input,
          assistant_message, stream, delivered, rendered, requests, out, exc>>

(***************************************************************************)
(* Sequences and strings                                                   *)
(***************************************************************************)
Last(s) == s[Len(s)]

Front(s) == SubSeq(s, 1, Len(s) - 1)

IsPrefix(s, t) == Len(s) <= Len(t) /\ SubSeq(t, 1, Len(s)) = s

\* The characters str.strip() removes, among those the inputs use.
Whitespace == {" ", "\t", "\n", "\r"}

UpperCase == <<"A", "B", "C", "D", "E", "F", "G", "H", "I", "J", "K", "L", "M",
               "N", "O", "P", "Q", "R", "S", "T", "U", "V", "W", "X", "Y", "Z">>

LowerCase == <<"a", "b", "c", "d", "e", "f", "g", "h", "i", "j", "k", "l", "m",
               "n", "o", "p", "q", "r", "s", "t", "u", "v", "w", "x", "y", "z">>

lowerChar(c) ==
    IF \E i \in 1..Len(UpperCase) : UpperCase[i] = c
    THEN LowerCase[CHOOSE i \in 1..Len(UpperCase) : UpperCase[i] = c]
    ELSE c

\* str.lower()
lower(s) == [i \in 1..Len(s) |-> lowerChar(s[i])]

RECURSIVE lstrip(_)
lstrip(s) ==
    IF s = <<>> THEN s
    ELSE IF Head(s) \in Whitespace THEN lstrip(Tail(s)) ELSE s

RECURSIVE rstrip(_)
rstrip(s) ==
    IF s = <<>> THEN s
    ELSE IF Last(s) \in Whitespace THEN rstrip(Front(s)) ELSE s

\* A faulty variant of strip: the line is used as typed.
strip_Identity(s) == s

\* str.strip()
strip(s) == rstrip(lstrip(s))

\* The literal 'quit' of line 100.
QuitKeyword == <<"q", "u", "i", "t">>

(***************************************************************************)
(* Messages and the hardcoded message lists                                *)
(***************************************************************************)
Msg(role, content) == [role |-> role, content |-> content]

SimpleChatMessages ==
    << Msg("user", <<"H", "e", "l", "l", "o", "!", " ", "W", "h", "a", "t", " ",
                     "i", "s", " ", "T", "E", "N", "E", "X", "?">>) >>

MultiTurnMessages ==
    << Msg("user", <<"W", "h", "a", "t", " ", "i", "s", " ", "2", "+", "2", "?">>),
       Msg("assistant", <<"2", "+", "2", " ", "e", "q", "u", "a", "l", "s", " ",
                          "4", ".">>),
       Msg("user", <<"W", "h", "a", "t", " ", "a", "b", "o", "u", "t", " ", "3",
                     "+", "3", "?">>) >>

CodeQuestionMessages ==
    << Msg("user", <<"W", "r", "i", "t", "e", " ", "a", " ", "P", "y", "t", "h",
                     "o", "n", " ", "f", "u", "n", "c", "t", "i", "o", "n", " ",
                     "t", "o", " ", "r", "e", "v", "e", "r", "s", "e", " ", "a",
                     " ", "s", "t", "r", "i", "n", "g">>) >>

(***************************************************************************)
(* The environment: stream chunks and input lines                          *)
(***************************************************************************)
\* chunk.choices[0].delta: content is None (has_content FALSE) or a string.
Delta(has, content) == [has_content |-> has, content |-> content]

Chunk(choices) == [choices |-> choices]

\* A chunk without choices, one whose content is None, one whose content is
\* "", and two with text.
Chunks ==
    { Chunk(<<>>),
      Chunk(<<Delta(FALSE, <<>>)>>),
      Chunk(<<Delta(TRUE, <<>>)>>),
      Chunk(<<Delta(TRUE, <<"a">>)>>),
      Chunk(<<Delta(TRUE, <<"b">>)>>) }

\* Python's truth value of delta.content: None and "" are false.
Truthy(d) == d.has_content /\ d.content # <<>>

\* The lines input() may return.
Lines ==
    { <<>>,
      <<" ", " ", " ">>,
      <<"\t">>,
      <<"q", "u", "i", "t">>,
      <<"Q", "U", "I", "T">>,
      <<"Q", "u", "i", "t">>,
      <<" ", "q", "U", "i", "T", " ">>,
      <<" ", "H", "i", " ">>,
      <<"q", "u", "i", "t", " ", "i", "t">> }

(***************************************************************************)
(* Initial state: the module is imported, main() is about to run           *)
(***************************************************************************)
Init ==
    /\ runInteractive \in BOOLEAN
    /\ pc = "main"
    /\ cur = "none"
    /\ messages = <<>>
    /\ line = <<>>
    /\ user_input = <<>>
    /\ assistant_message = <<>>
    /\ stream = "none"
    /\ delivered = <<>>
    /\ rendered = <<>>
    /\ requests = <<>>
    /\ out = <<>>
    /\ exc = "none"

(***************************************************************************)
(* Exceptions: every call of main() lies in its try block, whose handler   *)
(* catches Exception                                                       *)
(***************************************************************************)
\* A faulty variant of Raise: the handler's class does not cover the exception,
\* which leaves main().
Raise_Uncaught(e) ==
    /\ exc' = e
    /\ pc' = "raised"

Raise(e) ==
    /\ exc' = e
    /\ pc' = "except"

\* A faulty variant of SendRequest: only the newest message is sent.
SendRequest_LastOnly(msgs) == requests' = Append(requests, <<Last(msgs)>>)

\* client.chat.completions.create(model="tenex", messages=msgs, stream=True)
SendRequest(msgs) == requests' = Append(requests, msgs)

\* print("Assistant: ", ...) followed by iterating a fresh stream
OpenStream ==
    /\ stream' = "open"
    /\ delivered' = <<>>
    /\ rendered' = <<>>

(***************************************************************************)
(* main() up to the try block.  The header stands for lines 134 to 144:    *)
(* the warning about PROJECT_DTAG depends on the environment alone.        *)
(***************************************************************************)
Main ==
    /\ pc = "main"
    /\ out' = Append(out, "header")
    /\ pc' = "simple_chat"
    /\ UNCHANGED <<runInteractive, cur, messages, line, user_input,
                   assistant_message, stream, delivered, rendered, requests, exc>>

(***************************************************************************)
(* The three canned examples, each up to its for loop                      *)
(***************************************************************************)
SimpleChat ==
    /\ pc = "simple_chat"
    /\ cur' = "simple_chat"
    /\ SendRequest(SimpleChatMessages)
    /\ \E ok \in BOOLEAN :
        IF ok
        THEN /\ out' = out \o <<"banner1", "assistant_label">>
             /\ OpenStream
             /\ pc' = "stream"
             /\ exc' = exc
        ELSE /\ out' = Append(out, "banner1")
             /\ Raise("APIError")
             /\ UNCHANGED <<stream, delivered, rendered>>
    /\ UNCHANGED <<runInteractive, messages, line, user_input,
                   assistant_message>>

MultiTurnConversation ==
    /\ pc = "multi_turn_conversation"
    /\ cur' = "multi_turn_conversation"
    /\ SendRequest(MultiTurnMessages)
    /\ out' = out \o <<"banner2", "transcript", "assistant_label">>
    /\ rendered' = <<>>
    /\ \E ok \in BOOLEAN :
        IF ok
        THEN /\ stream' = "open"
             /\ delivered' = <<>>
             /\ pc' = "stream"
             /\ exc' = exc
        ELSE /\ Raise("APIError")
             /\ UNCHANGED <<stream, delivered>>
    /\ UNCHANGED <<runInteractive, messages, line, user_input,
                   assistant_message>>

CodeQuestion ==
    /\ pc = "code_question"
    /\ cur' = "code_question"
    /\ SendRequest(CodeQuestionMessages)
    /\ \E ok \in BOOLEAN :
        IF ok
        THEN /\ out' = out \o <<"banner3", "assistant_label">>
             /\ OpenStream
             /\ pc' = "stream"
             /\ exc' = exc
        ELSE /\ out' = Append(out, "banner3")
             /\ Raise("APIError")
             /\ UNCHANGED <<stream, delivered, rendered>>
    /\ UNCHANGED <<runInteractive, messages, line, user_input,
                   assistant_message>>

(***************************************************************************)
(* interactive_chat()                                                      *)
(***************************************************************************)
InteractiveChat ==
    /\ pc = "interactive_chat"
    /\ cur' = "interactive_chat"
    /\ out' = Append(out, "banner4")
    /\ messages' = <<>>
    /\ pc' = "input"
    /\ UNCHANGED <<runInteractive, line, user_input,
                   assistant_message, stream, delivered, rendered, requests, exc>>

\* A faulty variant of IsQuit: the comparison without lower().
IsQuit_CaseSensitive(s) == s = QuitKeyword

\* `if user_input.lower() == 'quit'`
IsQuit(s) == lower(s) = QuitKeyword

\* `if not user_input`
IsEmpty(s) == s = <<>>

\* input() returns a line: lines 98 to 117
ReadInput(l, ok) ==
    /\ pc = "input"
    /\ line' = l
    /\ user_input' = strip(l)
    /\ IF IsQuit(user_input')
       THEN /\ pc' = "done"
            /\ UNCHANGED <<messages, requests, out, assistant_message, stream,
                           delivered, rendered, exc>>
       ELSE IF IsEmpty(user_input')
       THEN /\ pc' = "input"
            /\ UNCHANGED <<messages, requests, out, assistant_message, stream,
                           delivered, rendered, exc>>
       ELSE /\ Len(messages) < 2 * MaxTurns
            /\ messages' = Append(messages, Msg("user", user_input'))
            /\ SendRequest(messages')
            /\ IF ok
               THEN /\ out' = Append(out, "assistant_label")
                    /\ assistant_message' = <<>>
                    /\ OpenStream
                    /\ pc' = "stream"
                    /\ exc' = exc
               ELSE /\ Raise("APIError")
                    /\ UNCHANGED <<out, assistant_message, stream, delivered,
                                   rendered>>
    /\ UNCHANGED <<runInteractive, cur>>

\* input() raises EOFError at end of input
ReadEOF ==
    /\ pc = "input"
    /\ Raise("EOFError")
    /\ UNCHANGED <<runInteractive, cur, messages, line, user_input,
                   assistant_message, stream, delivered, rendered, requests, out>>

(***************************************************************************)
(* The for loops over a stream                                             *)
(***************************************************************************)
\* A faulty variant of Consume: the new content is put in front of the reply.
Consume_Prepend(c) ==
    IF c.choices = <<>>
    THEN /\ Raise("IndexError")
         /\ UNCHANGED <<rendered, assistant_message>>
    ELSE /\ UNCHANGED <<pc, exc>>
         /\ IF Truthy(c.choices[1])
            THEN /\ rendered' = rendered \o c.choices[1].content
                 /\ assistant_message' =
                        IF cur = "interactive_chat"
                        THEN c.choices[1].content \o assistant_message
                        ELSE assistant_message
            ELSE UNCHANGED <<rendered, assistant_message>>

\* The body of `for chunk in stream` for one chunk.
Consume(c) ==
    IF c.choices = <<>>
    THEN /\ Raise("IndexError")
         /\ UNCHANGED <<rendered, assistant_message>>
    ELSE /\ UNCHANGED <<pc, exc>>
         /\ IF Truthy(c.choices[1])
            THEN /\ rendered' = rendered \o c.choices[1].content
                 /\ assistant_message' =
                        IF cur = "interactive_chat"
                        THEN assistant_message \o c.choices[1].content
                        ELSE assistant_message
            ELSE UNCHANGED <<rendered, assistant_message>>

NextChunk(c) ==
    /\ pc = "stream"
    /\ Len(delivered) < MaxFrags
    /\ delivered' = Append(delivered, c)
    /\ Consume(c)
    /\ UNCHANGED <<runInteractive, cur, messages, line, user_input,
                   stream, requests, out>>

\* A faulty variant of AppendReply: the reply is not added to the history.
AppendReply_Dropped ==
    /\ messages' = messages
    /\ out' = out \o <<"end", "blank">>
    /\ pc' = "input"

\* A faulty variant of AppendReply: the reply takes the place of the user
\* message it answers.
AppendReply_Overwrite ==
    /\ messages' = Append(Front(messages), Msg("assistant", assistant_message))
    /\ out' = out \o <<"end", "blank">>
    /\ pc' = "input"

\* What follows the for loop in interactive_chat: lines 125 to 130.
AppendReply ==
    /\ messages' = Append(messages, Msg("assistant", assistant_message))
    /\ out' = out \o <<"end", "blank">>
    /\ pc' = "input"

\* A faulty variant of AfterExample: main() goes from simple_chat straight to
\* code_question.
AfterExample_SkipMultiTurn(f) ==
    CASE f = "simple_chat" -> "code_question"
      [] f = "multi_turn_conversation" -> "code_question"
      [] f = "code_question" ->
            IF runInteractive THEN "interactive_chat" ELSE "done"

\* What main() calls after the example `f` returns.
AfterExample(f) ==
    CASE f = "simple_chat" -> "multi_turn_conversation"
      [] f = "multi_turn_conversation" -> "code_question"
      [] f = "code_question" ->
            IF runInteractive THEN "interactive_chat" ELSE "done"

\* The stream ends: the for loop is left normally.
StreamEnd ==
    /\ pc = "stream"
    /\ stream' = "exhausted"
    /\ delivered' = <<>>
    /\ IF cur = "interactive_chat"
       THEN AppendReply
       ELSE /\ out' = Append(out, "end")
            /\ pc' = AfterExample(cur)
            /\ UNCHANGED messages
    /\ UNCHANGED <<runInteractive, cur, line, user_input,
                   assistant_message, rendered, requests, exc>>

\* A faulty variant of StreamFail: the partial reply is saved before the
\* exception goes on.
StreamFail_AppendPartial ==
    /\ pc = "stream"
    /\ stream' = "failed"
    /\ Raise("APIError")
    /\ messages' = IF cur = "interactive_chat"
                   THEN Append(messages, Msg("assistant", assistant_message))
                   ELSE messages
    /\ UNCHANGED <<runInteractive, cur, line, user_input,
                   assistant_message, delivered, rendered, requests, out>>

\* The client raises while the stream is iterated.
StreamFail ==
    /\ pc = "stream"
    /\ stream' = "failed"
    /\ Raise("APIError")
    /\ UNCHANGED <<runInteractive, cur, messages, line, user_input,
                   assistant_message, delivered, rendered, requests, out>>

(***************************************************************************)
(* main()'s handler: lines 155 to 160                                      *)
(***************************************************************************)
Except ==
    /\ pc = "except"
    /\ out' = out \o <<"error", "checklist">>
    /\ pc' = "done"
    /\ UNCHANGED <<runInteractive, cur, messages, line, user_input,
                   assistant_message, stream, delivered, rendered, requests, exc>>

Next ==
    \/ Main
    \/ SimpleChat
    \/ MultiTurnConversation
    \/ CodeQuestion
    \/ InteractiveChat
    \/ \E l \in Lines, ok \in BOOLEAN : ReadInput(l, ok)
    \/ ReadEOF
    \/ \E c \in Chunks : NextChunk(c)
    \/ StreamEnd
    \/ StreamFail
    \/ Except

Spec == Init /\ [][Next]_vars

\* main() is sequential code: whenever it can take a step, it takes one.
FairSpec == Spec /\ WF_vars(Next)

(***************************************************************************)
(* Vocabulary of the properties                                            *)
(***************************************************************************)
Interactive == cur = "interactive_chat"

\* The requests interactive_chat has sent: those after the three examples'.
InteractiveRequests == SubSeq(requests, 4, Len(requests))

\* u, a, u, a, ..., u
AlternatesToUser(h) ==
    /\ Len(h) % 2 = 1
    /\ \A i \in 1..Len(h) :
        h[i].role = (IF i % 2 = 1 THEN "user" ELSE "assistant")

HasText(c) ==
    /\ c.choices # <<>>
    /\ c.choices[1].has_content
    /\ Len(c.choices[1].content) > 0

\* The concatenation, in order, of the content of the chunks that have text.
RECURSIVE ConcatContent(_)
ConcatContent(F) ==
    IF F = <<>> THEN <<>>
    ELSE (IF HasText(Head(F)) THEN Head(F).choices[1].content ELSE <<>>)
            \o ConcatContent(Tail(F))

\* Input lines by what the user typed.
QuitLines == { <<"q", "u", "i", "t">>, <<"Q", "U", "I", "T">>,
               <<"Q", "u", "i", "t">> }

BlankLines == { <<>>, <<" ", " ", " ">> }

\* The other lines, with the text each stands for.
Utterance(l) ==
    CASE l = <<" ", "H", "i", " ">> -> <<"H", "i">>
      [] l = <<"q", "u", "i", "t", " ", "i", "t">> -> l
      [] OTHER -> <<>>

\* A step in which input() returned a line (and did not raise).
ReadsLine == pc = "input" /\ exc' # "EOFError"

\* The request or the stream of an interactive turn has failed.
FailedTurn == Interactive /\ exc \in {"APIError", "IndexError"}

ErrorReports == Cardinality({i \in 1..Len(out) : out[i] = "error"})

(***************************************************************************)
(* C1                                                                      *)
(***************************************************************************)
\* C1 as stated: when the request or the stream of an interactive turn
\* fails, the history holds nothing of that turn, so it is empty or ends with
\* the assistant message of the exchange before.
C1_NothingAppendedOnFailure ==
    FailedTurn => (messages = <<>> \/ Last(messages).role = "assistant")

\* C1 as amended: when the request or the stream of an interactive turn fails
\* after k fragments, the history is the history before the input followed by
\* the user message of that turn, which was appended before the request and
\* is the list the request carried; no assistant message, full or partial,
\* is appended for that turn.
C1_OnlyUserMessageOnFailure ==
    /\ [](FailedTurn =>
            /\ messages = Last(requests)
            /\ Last(messages) = Msg("user", Utterance(line))
            /\ AlternatesToUser(messages))
    /\ [][FailedTurn' /\ ~FailedTurn =>
            IF pc = "input"
            THEN messages' = Append(messages, Msg("user", Utterance(line')))
            ELSE messages' = messages]_vars

\* The second turn's stream failed after the fragment "a".
C1_Witness ==
    /\ FailedTurn
    /\ stream = "failed"
    /\ Len(messages) = 3
    /\ Len(delivered) = 1
    /\ assistant_message = <<"a">>

(***************************************************************************)
(* C2                                                                      *)
(***************************************************************************)
\* C2: whenever the loop waits for input after a completed exchange, the
\* history ends with a user message immediately followed by the assistant
\* message answering it, whose content is the reply accumulated (and printed)
\* from that stream; what precedes the assistant message is the request that
\* was sent, so nothing lies between or after them.  Right after the
\* exchange the user message is the one typed for it.
C2_EndsWithUserThenAssistant ==
    (pc = "input" /\ messages # <<>>) =>
        /\ Len(messages) >= 2
        /\ messages[Len(messages) - 1].role = "user"
        /\ Last(messages) = Msg("assistant", assistant_message)
        /\ assistant_message = rendered
        /\ Front(messages) = Last(requests)
        /\ (Utterance(line) # <<>> =>
                messages[Len(messages) - 1] = Msg("user", Utterance(line)))

\* Two exchanges completed, the second answered "ab".
C2_Witness ==
    /\ pc = "input"
    /\ Len(messages) = 4
    /\ line = <<" ", "H", "i", " ">>
    /\ Last(messages) = Msg("assistant", <<"a", "b">>)

(***************************************************************************)
(* C3                                                                      *)
(***************************************************************************)
\* C3: while a stream of the interactive loop is consumed, and when it has
\* failed, the accumulated reply and the text printed are both the
\* concatenation, in arrival order, of the content of the delivered chunks
\* that have text; a chunk whose content is None or "" adds nothing.
C3_ReplyIsConcatenation ==
    (Interactive /\ stream \in {"open", "failed"}) =>
        /\ assistant_message = ConcatContent(delivered)
        /\ rendered = ConcatContent(delivered)

\* A chunk without content followed by "a".
C3_Witness ==
    /\ Interactive
    /\ pc = "stream"
    /\ delivered = <<Chunk(<<Delta(FALSE, <<>>)>>), Chunk(<<Delta(TRUE, <<"a">>)>>)>>
    /\ assistant_message = <<"a">>

(***************************************************************************)
(* C4                                                                      *)
(***************************************************************************)
\* C4: a failure raised by the client in create() or while a stream is read
\* reaches main()'s handler and nothing else: from then on the only step is
\* the handler's, which prints the diagnostic and the checklist once, sends
\* no request, starts no example and ends main(); and main() does end.
C4_CaughtOnceAtTop ==
    /\ [](exc = "APIError" =>
            /\ pc \in {"except", "done"}
            /\ (pc = "done" =>
                    /\ ErrorReports = 1
                    /\ SubSeq(out, Len(out) - 1, Len(out)) = <<"error", "checklist">>))
    /\ [][exc = "APIError" =>
            /\ pc = "except"
            /\ pc' = "done"
            /\ out' = out \o <<"error", "checklist">>
            /\ requests' = requests
            /\ cur' = cur]_vars
    /\ (exc = "APIError" ~> pc = "done")

\* The second example's stream failed after one chunk; main() has ended.
C4_Witness ==
    /\ pc = "done"
    /\ exc = "APIError"
    /\ cur = "multi_turn_conversation"
    /\ stream = "failed"
    /\ Len(delivered) = 1
    /\ Len(requests) = 2

(***************************************************************************)
(* C5                                                                      *)
(***************************************************************************)
\* C5: when the line typed is quit, QUIT or Quit, the loop ends at once:
\* no request is sent, the history and the output are unchanged, and no
\* step follows the end of main().
C5_QuitTerminates ==
    /\ [][(ReadsLine /\ line' \in QuitLines) =>
            /\ pc' = "done"
            /\ requests' = requests
            /\ messages' = messages
            /\ out' = out
            /\ stream' = stream
            /\ exc' = "none"]_vars
    /\ [][pc # "done"]_vars

\* QUIT was typed after one completed exchange.
C5_Witness ==
    /\ pc = "done"
    /\ line = <<"Q", "U", "I", "T">>
    /\ Len(messages) = 2
    /\ Len(requests) = 4
    /\ exc = "none"

(***************************************************************************)
(* C6                                                                      *)
(***************************************************************************)
\* C6: when the line typed is empty or only spaces, the loop waits for input
\* again: no request is sent and the history, the output and the stream are
\* unchanged.
C6_BlankReprompts ==
    [][(ReadsLine /\ line' \in BlankLines) =>
            /\ pc' = "input"
            /\ requests' = requests
            /\ messages' = messages
            /\ out' = out
            /\ stream' = stream
            /\ exc' = "none"]_vars

\* Three spaces were typed after one completed exchange.
C6_Witness ==
    /\ pc = "input"
    /\ line = <<" ", " ", " ">>
    /\ user_input = <<>>
    /\ Len(messages) = 2
    /\ Len(requests) = 4

(***************************************************************************)
(* C7                                                                      *)
(***************************************************************************)
\* C7 as stated: end of input at the prompt ends the loop normally, as quit
\* does: main() is not in its handler and no error is reported.
C7_EndOfInputIsNormal ==
    exc = "EOFError" => (pc = "done" /\ ErrorReports = 0)

(***************************************************************************)
(* C8                                                                      *)
(***************************************************************************)
\* C8: in every step the history before is a prefix of the history after.
C8_AppendOnly == [][IsPrefix(messages, messages')]_vars

\* The history has grown to two exchanges.
C8_Witness ==
    /\ Interactive
    /\ Len(messages) = 4
    /\ messages[2].role = "assistant"
    /\ stream = "exhausted"

(***************************************************************************)
(* C9                                                                      *)
(***************************************************************************)
\* C9: the n-th request of the interactive loop has 2(n-1)+1 messages with
\* roles user, assistant, ..., user, extends the request before it and is a
\* prefix of the history; a step that reads a line other than blank or quit
\* sends exactly one request, the history followed by the new user message,
\* and no other step of the loop sends any; no stream is open while the loop
\* waits for input.
C9_RequestCarriesHistory ==
    /\ [](Interactive =>
            /\ \A n \in 1..Len(InteractiveRequests) :
                /\ Len(InteractiveRequests[n]) = 2 * (n - 1) + 1
                /\ AlternatesToUser(InteractiveRequests[n])
                /\ IsPrefix(InteractiveRequests[n], messages)
                /\ n > 1 => IsPrefix(InteractiveRequests[n - 1], InteractiveRequests[n])
            /\ (pc = "input" => stream # "open"))
    /\ [][Interactive =>
            IF ReadsLine /\ Utterance(line') # <<>>
            THEN requests' = Append(requests,
                                    Append(messages, Msg("user", Utterance(line'))))
            ELSE requests' = requests]_vars

\* The second request is being answered.
C9_Witness ==
    /\ Interactive
    /\ pc = "stream"
    /\ Len(requests) = 5
    /\ Len(requests[5]) = 3
    /\ requests[5][3] = Msg("user", <<"q", "u", "i", "t", " ", "i", "t">>)

(***************************************************************************)
(* C10                                                                     *)
(***************************************************************************)
\* The list the claim gives for the multi-turn example.
C10_MultiTurnList ==
    << [role |-> "user",
        content |-> <<"W", "h", "a", "t", " ", "i", "s", " ", "2", "+", "2", "?">>],
       [role |-> "assistant",
        content |-> <<"2", "+", "2", " ", "e", "q", "u", "a", "l", "s", " ", "4", ".">>],
       [role |-> "user",
        content |-> <<"W", "h", "a", "t", " ", "a", "b", "o", "u", "t", " ", "3", "+",
                      "3", "?">>] >>

\* C10: main() as shipped (the interactive example commented out) ends; when
\* it ends and no call has failed, exactly three requests were sent, by
\* simple_chat, multi_turn_conversation and code_question in this order,
\* each its own list, the second the multi-turn list; the examples leave the
\* interactive history empty.
C10_MainRunsExamplesOnce ==
    /\ (~runInteractive => <>(pc = "done"))
    /\ []((pc = "done" /\ ~runInteractive /\ exc = "none") =>
            /\ Len(requests) = 3
            /\ requests[1] = SimpleChatMessages
            /\ requests[2] = C10_MultiTurnList
            /\ requests[3] = CodeQuestionMessages
            /\ out = <<"header", "banner1", "assistant_label", "end",
                       "banner2", "transcript", "assistant_label", "end",
                       "banner3", "assistant_label", "end">>)
    /\ [](~Interactive => messages = <<>>)

\* main() as shipped has ended without a failure.
C10_Witness ==
    /\ pc = "done"
    /\ ~runInteractive
    /\ exc = "none"
    /\ cur = "code_question"
    /\ Len(requests) = 3
    /\ stream = "exhausted"

====
